---------------------------- MODULE Spec2Model ----------------------------
(***************************************************************************)
(* Model of SciDownl's HTML-to-document-link extractor                     *)
(* (scidownl/core/extractor.py, class HtmlPdfExtractor) and of the batch   *)
(* loop of the `download` command (scidownl/api/cli.py).                   *)
(*                                                                         *)
(* Text is modelled as a sequence of one-character strings, so that        *)
(* substring search, splitting, truncation and trimming are computed the   *)
(* way the Python code computes them.  An HTML page is modelled by what    *)
(* BeautifulSoup's lookups return on it: the first element matching the    *)
(* configured selector and its link attribute, the title element, the      *)
(* first h1 element and the two meta elements.                             *)
(***************************************************************************)
EXTENDS Integers, Sequences, FiniteSets, TLC

VARIABLES
    context,               \* task.context: a dict, keys may be missing
    ext,                   \* the HtmlPdfExtractor objects constructed so far
    store,                 \* ScihubUrlService's records: url -> counters
    calls,                 \* calls made on the ScihubUrlService, in order
    extract_calls,         \* number of extract() calls made
    last,                  \* what the latest extract() call returned or raised
    DEFAULT_REFERER,       \* HtmlPdfExtractor.DEFAULT_REFERER (class attribute)
    input,                 \* argument of the function applied (function specs)
    output,                \* its result
    tasks,                 \* download(): the list of task kwargs
    input_file,            \* download(): whether --input-file was given
    pc,                    \* download(): position in the handler
    total_attempted,       \* download(): counter
    successful_downloads,  \* download(): counter
    failed_sources,        \* download(): list of source keywords
    failed_file,           \* download(): lines written to the "_failed" file
    constructed,           \* indexes of the tasks ScihubTask(...) was called for
    ran                    \* indexes of the tasks run() was called on

vars == <<context, ext, store, calls, extract_calls, last, DEFAULT_REFERER,
          input, output,
          tasks, input_file, pc, total_attempted, successful_downloads,
          failed_sources, failed_file, constructed, ran>>

extractorVars == <<context, ext, store, calls, extract_calls, last,
                   DEFAULT_REFERER>>
functionVars == <<input, output>>
batchVars == <<tasks, input_file, pc, total_attempted, successful_downloads,
               failed_sources, failed_file, constructed, ran>>

-----------------------------------------------------------------------------
(* Bounds of the model. *)

MaxUrlChunks == 3
MaxTitleChunks == 3
MaxExtracts == 2
MaxExtractors == 2
MaxTasks == 3

-----------------------------------------------------------------------------
(* Python string operations on sequences of characters. *)

SetMin(S) == CHOOSE x \in S : \A y \in S : x <= y
SetMax(S) == CHOOSE x \in S : \A y \in S : x >= y

\* s.startswith(p)
StartsWith(s, p) == Len(s) >= Len(p) /\ SubSeq(s, 1, Len(p)) = p

\* p in s
Contains(s, p) ==
    \E i \in 1..(Len(s) - Len(p) + 1) : SubSeq(s, i, i + Len(p) - 1) = p

\* s.find(c) + 1 for a single character c: 0 when c is not in s
IndexOf(s, c) ==
    IF \E i \in 1..Len(s) : s[i] = c
    THEN SetMin({i \in 1..Len(s) : s[i] = c})
    ELSE 0

\* s.split(c)[0]
SplitFirst(s, c) ==
    IF IndexOf(s, c) = 0 THEN s ELSE SubSeq(s, 1, IndexOf(s, c) - 1)

\* s.split(c)[1], for s that contains c
SplitSecond(s, c) ==
    SplitFirst(SubSeq(s, IndexOf(s, c) + 1, Len(s)), c)

\* s[n:]
DropFirst(s, n) == SubSeq(s, n + 1, Len(s))

\* s[:n]
TakeFirst(s, n) == IF Len(s) <= n THEN s ELSE SubSeq(s, 1, n)

\* characters str.strip() removes
Whitespace == {" ", "\n"}

\* s.strip()
Strip(s) ==
    LET keep == {i \in 1..Len(s) : s[i] \notin Whitespace}
    IN  IF keep = {} THEN <<>> ELSE SubSeq(s, SetMin(keep), SetMax(keep))

\* s * n for a one-character s
Repeat(c, n) == [i \in 1..n |-> c]

RECURSIVE Join(_)
\* "".join(parts)
Join(parts) ==
    IF parts = <<>> THEN <<>> ELSE Head(parts) \o Join(Tail(parts))

\* all sequences over S of length 0..n
SeqUpTo(S, n) == UNION {[1..k -> S] : k \in 0..n}

-----------------------------------------------------------------------------
(* Configuration and constants the extractor reads. *)

\* UrlInformation.PROTOCOL_PREFIXES: the recognized absolute-URL prefixes
PROTOCOL_PREFIXES ==
    { <<"h", "t", "t", "p", ":", "/", "/">>,
      <<"h", "t", "t", "p", "s", ":", "/", "/">> }

\* UrlInformation.DEFAULT_PROTOCOL_PREFIX: the default scheme
DEFAULT_PROTOCOL_PREFIX == <<"h", "t", "t", "p", "s", ":", "/", "/">>

\* "https://sci-hub.se", the hardcoded fallback of get_default_referer()
HardcodedReferer ==
    <<"h", "t", "t", "p", "s", ":", "/", "/", "s", "c", "i", "-", "h", "u",
      "b", ".", "s", "e">>

\* mirror urls; M1 and M2 may be records of the store, M3 never is
M1 == <<"h", "t", "t", "p", "s", ":", "/", "/", "m", "1">>
M2 == <<"h", "t", "t", "p", ":", "/", "/", "m", "2">>
M3 == <<"h", "t", "t", "p", "s", ":", "/", "/", "m", "3">>

\* the characters _clean_title replaces, rstr = [\/\\\:\*\?\"\<\>\|]
HostileChars == {"/", "\\", ":", "*", "?", "\"", "<", ">", "|"}

\* the slice bound of _clean_title, [:200]
TitleMaxLen == 200

-----------------------------------------------------------------------------
(* What a call returns or raises. *)

Return(v) == [ok |-> TRUE, val |-> v]
Raise(e) == [ok |-> FALSE, exc |-> e]

(* An HTML page, by what BeautifulSoup finds in it. *)

NoPdfTag == [found |-> FALSE, has_attr |-> FALSE, raw |-> <<>>]
PdfTagNoAttr == [found |-> TRUE, has_attr |-> FALSE, raw |-> <<>>]
PdfTag(raw) == [found |-> TRUE, has_attr |-> TRUE, raw |-> raw]

NoElement == [present |-> FALSE, text |-> <<>>]
Element(text) == [present |-> TRUE, text |-> text]

NoMeta == [present |-> FALSE, has_content |-> FALSE, content |-> <<>>]
MetaNoContent == [present |-> TRUE, has_content |-> FALSE, content |-> <<>>]
Meta(content) == [present |-> TRUE, has_content |-> TRUE, content |-> content]

Page(pdf_tag, title, h1, citation_title, og_title) ==
    [pdf_tag |-> pdf_tag, title |-> title, h1 |-> h1,
     citation_title |-> citation_title, og_title |-> og_title]

-----------------------------------------------------------------------------
(* HtmlPdfExtractor's methods.  self is [content, task]: the page and       *)
(* whether the extractor was given a task (task is not None).               *)

\* re.sub(rstr, " ", title)
ReplaceHostile(title) ==
    [i \in 1..Len(title) |-> IF title[i] \in HostileChars THEN " " ELSE title[i]]

\* _clean_title trimming before it truncates
_clean_title_TrimsFirst(title) ==
    IF title = <<>>
    THEN <<>>
    ELSE TakeFirst(Strip(ReplaceHostile(title)), TitleMaxLen)

_clean_title(title) ==
    IF title = <<>>
    THEN <<>>
    ELSE Strip(TakeFirst(ReplaceHostile(title), TitleMaxLen))

\* Method 1 taking the segment before the first "|"
TitleMethod1_BeforeBar(content) ==
    IF content.title.present /\ Len(content.title.text) > 0
    THEN SplitFirst(content.title.text, "|")
    ELSE <<>>

\* Method 1: the title element, the segment after the first "|" if any
TitleMethod1(content) ==
    IF content.title.present /\ Len(content.title.text) > 0
    THEN IF Contains(content.title.text, <<"|">>)
         THEN SplitSecond(content.title.text, "|")
         ELSE content.title.text
    ELSE <<>>

\* Method 2: the first h1, if the title is still blank
TitleMethod2(content, title) ==
    IF Strip(title) = <<>> /\ content.h1.present
    THEN content.h1.text
    ELSE title

\* soup.find('meta', citation_title) or soup.find('meta', og:title)
MetaTitle(content) ==
    IF content.citation_title.present
    THEN content.citation_title
    ELSE content.og_title

\* Method 3: the meta tags, if the title is still blank
TitleMethod3(content, title) ==
    IF Strip(title) = <<>>
    THEN IF MetaTitle(content).present /\ MetaTitle(content).has_content
         THEN MetaTitle(content).content
         ELSE title
    ELSE title

_extract_title(self) ==
    _clean_title(
        TitleMethod3(self.content,
            TitleMethod2(self.content, TitleMethod1(self.content))))

\* _extract_raw_url reading the attribute with an empty default
_extract_raw_url_EmptyDefault(self) ==
    IF ~self.content.pdf_tag.found
    THEN Raise("PdfTagNotFoundException")
    ELSE Return(self.content.pdf_tag.raw)

_extract_raw_url(self) ==
    IF ~self.content.pdf_tag.found
    THEN Raise("PdfTagNotFoundException")
    ELSE IF ~self.content.pdf_tag.has_attr
         THEN Raise("PdfUrlNotFoundException")
         ELSE Return(self.content.pdf_tag.raw)

\* the referer a "/..." link is resolved against
RefererOf(self) ==
    IF ~self.task
    THEN DEFAULT_REFERER
    ELSE IF "referer" \in DOMAIN context
         THEN context.referer
         ELSE DEFAULT_REFERER

\* _extract_url resolving the raw url with its fragment
ResolveUrl_KeepsFragment(self, raw_url) ==
    IF \E prefix \in PROTOCOL_PREFIXES : Contains(raw_url, prefix)
    THEN raw_url
    ELSE IF StartsWith(raw_url, <<"/", "/">>)
         THEN DEFAULT_PROTOCOL_PREFIX \o DropFirst(raw_url, 2)
         ELSE IF StartsWith(raw_url, <<"/">>)
              THEN RefererOf(self) \o raw_url
              ELSE raw_url

\* the part of _extract_url after the raw url has been read
ResolveUrl(self, raw_url) ==
    IF \E prefix \in PROTOCOL_PREFIXES : Contains(raw_url, prefix)
    THEN raw_url
    ELSE LET url == SplitFirst(raw_url, "#")
         IN  IF StartsWith(url, <<"/", "/">>)
             THEN DEFAULT_PROTOCOL_PREFIX \o DropFirst(url, 2)
             ELSE IF StartsWith(url, <<"/">>)
                  THEN RefererOf(self) \o url
                  ELSE url

_extract_url(self) ==
    IF _extract_raw_url(self).ok
    THEN Return(ResolveUrl(self, _extract_raw_url(self).val))
    ELSE _extract_raw_url(self)

-----------------------------------------------------------------------------
(* The task context (a dict) and the mirror health store. *)

\* d[k] = v
SetKey(d, k, v) == [x \in DOMAIN d \cup {k} |-> IF x = k THEN v ELSE d[x]]

\* d.get(k, None), None being <<>> and a value v being <<v>>
GetKey(d, k) == IF k \in DOMAIN d THEN <<d[k]>> ELSE <<>>

\* ScihubUrlService.increment_failed_times(url): the record of url gets one
\* more failure; nothing changes when url is None or not a record
increment_failed_times(s, url) ==
    IF url # <<>> /\ url[1] \in DOMAIN s
    THEN [s EXCEPT ![url[1]].failed_times = @ + 1]
    ELSE s

\* the contexts a task hands to the extractor: the landing page was crawled,
\* the mirror in use is recorded as referer (or no referer was recorded)
TaskContexts ==
    { [status |-> "crawling"],
      [status |-> "crawling", referer |-> M1],
      [status |-> "crawling", referer |-> M3] }

\* the stores a process can start with
Stores ==
    { [u \in D |-> [success_times |-> 0, failed_times |-> 0]] :
        D \in {{}, {M1, M2}} }

\* get_default_referer(): the hardcoded url when no mirror is stored,
\* else the url of the mirror the chooser hands out
DefaultReferers(s) ==
    IF DOMAIN s = {} THEN {HardcodedReferer} ELSE DOMAIN s

-----------------------------------------------------------------------------
(* HtmlPdfExtractor.__init__ and HtmlPdfExtractor.extract. *)

\* the pages the extractor is constructed on
Pages ==
    { Page(NoPdfTag, Element(<<"T">>), NoElement, NoMeta, NoMeta),
      Page(PdfTagNoAttr, NoElement, NoElement, NoMeta, NoMeta),
      Page(PdfTag(<<"/", "a", "#", "f">>), Element(<<"T", " ", "|", " ", "J">>),
           NoElement, NoMeta, NoMeta),
      Page(PdfTag(<<"/", "/", "x">>), NoElement, Element(<<"H">>),
           NoMeta, NoMeta) }

\* the try block also counting a success of the mirror in use
OnExtracted_CountsSuccess(self, info) ==
    /\ context' = IF self.task THEN SetKey(context, "info", info) ELSE context
    /\ last' = [self |-> self, kind |-> "returned", info |-> info]
    /\ calls' = Append(calls, [op |-> "increment_success_times",
                               url |-> GetKey(context, "referer")])
    /\ store' = [u \in DOMAIN store |->
                    IF GetKey(context, "referer") = <<u>>
                    THEN [store[u] EXCEPT !.success_times = @ + 1]
                    ELSE store[u]]

\* the try block's last lines: info is stored in the task context
OnExtracted(self, info) ==
    /\ context' = IF self.task THEN SetKey(context, "info", info) ELSE context
    /\ last' = [self |-> self, kind |-> "returned", info |-> info]
    /\ UNCHANGED <<store, calls>>

\* the except block without the call on the health store
OnExtractError_NoHealthCall(self, e) ==
    /\ IF self.task
       THEN context' = SetKey(SetKey(context, "status", "extracting_failed"),
                              "error", e)
       ELSE UNCHANGED context
    /\ UNCHANGED <<calls, store>>
    /\ last' = [self |-> self, kind |-> "raised", exc |-> "ExtractException",
                cause |-> e]

\* the except block: status and error are recorded, the mirror's failure is
\* counted, and ExtractException is raised
OnExtractError(self, e) ==
    /\ IF self.task
       THEN /\ context' = SetKey(SetKey(context, "status", "extracting_failed"),
                                 "error", e)
            /\ calls' = Append(calls, [op |-> "increment_failed_times",
                                       url |-> GetKey(context, "referer")])
            /\ store' = increment_failed_times(store, GetKey(context, "referer"))
       ELSE UNCHANGED <<context, calls, store>>
    /\ last' = [self |-> self, kind |-> "raised", exc |-> "ExtractException",
                cause |-> e]

\* status the constructor writes into the task context
ConstructedStatus == "extracting"

__init__(content, task) ==
    /\ \/ [content |-> content, task |-> task] \in ext
       \/ Cardinality(ext) < MaxExtractors
    /\ ext' = ext \cup {[content |-> content, task |-> task]}
    /\ context' = IF task
                  THEN SetKey(context, "status", ConstructedStatus)
                  ELSE context
    /\ UNCHANGED <<store, calls, extract_calls, last, DEFAULT_REFERER>>
    /\ UNCHANGED functionVars
    /\ UNCHANGED batchVars

extract(self) ==
    /\ extract_calls < MaxExtracts
    /\ extract_calls' = extract_calls + 1
    /\ IF _extract_url(self).ok
       THEN OnExtracted(self, [url |-> _extract_url(self).val,
                               title |-> _extract_title(self)])
       ELSE OnExtractError(self, _extract_url(self).exc)
    /\ UNCHANGED <<ext, DEFAULT_REFERER>>
    /\ UNCHANGED functionVars
    /\ UNCHANGED batchVars

NoFunction == [fn |-> "none"]

\* the extractor is not in use
ExtractorIdle ==
    /\ context = [status |-> "crawling"]
    /\ store = [u \in {} |-> 0]
    /\ DEFAULT_REFERER = HardcodedReferer
    /\ ext = {}
    /\ calls = <<>>
    /\ extract_calls = 0
    /\ last = [kind |-> "none"]

\* no function is being applied
FunctionIdle ==
    /\ input = NoFunction
    /\ output = NoFunction

\* download() is not running
BatchIdle ==
    /\ tasks = <<>>
    /\ input_file = FALSE
    /\ pc = "idle"
    /\ total_attempted = 0
    /\ successful_downloads = 0
    /\ failed_sources = <<>>
    /\ failed_file = <<>>
    /\ constructed = <<>>
    /\ ran = <<>>

Init ==
    /\ context \in TaskContexts
    /\ store \in Stores
    /\ DEFAULT_REFERER \in DefaultReferers(store)
    /\ ext = {}
    /\ calls = <<>>
    /\ extract_calls = 0
    /\ last = [kind |-> "none"]
    /\ FunctionIdle
    /\ BatchIdle

Next ==
    \/ \E content \in Pages, task \in BOOLEAN : __init__(content, task)
    \/ \E self \in ext : extract(self)

Spec == Init /\ [][Next]_vars

-----------------------------------------------------------------------------
(* The extractor's functions applied to inputs drawn from bounded sets. *)

\* pieces the raw link values are put together from
UrlChunks ==
    { <<"h", "t", "t", "p", ":", "/", "/">>,
      <<"h", "t", "t", "p", "s", ":", "/", "/">>,
      <<"/">>, <<"#">>, <<"x">>, <<":">> }

RawUrls == {Join(parts) : parts \in SeqUpTo(UrlChunks, MaxUrlChunks)}

\* extractors whose page has the pdf tag with the link attribute
UrlInputs ==
    { [fn |-> "_extract_url",
       self |-> [content |-> Page(PdfTag(raw), NoElement, NoElement, NoMeta, NoMeta),
                 task |-> task]] :
        raw \in RawUrls, task \in BOOLEAN }

\* pieces the title element's text is put together from
TitleChunks == { <<"a">>, <<"b">>, <<" ">>, <<"|">>, <<"/">> }

TitleTexts == {Join(parts) : parts \in SeqUpTo(TitleChunks, MaxTitleChunks)}

H1Elements == {NoElement, Element(<<>>), Element(<<" ">>), Element(<<"h", ":">>)}
CitationMetas == {NoMeta, MetaNoContent, Meta(<<" ">>), Meta(<<"c">>)}
OgMetas == {NoMeta, MetaNoContent, Meta(<<"o">>)}

\* extractors whose page carries title, h1 and meta elements
TitleInputs ==
    { [fn |-> "_extract_title",
       self |-> [content |-> Page(NoPdfTag, title, h1, citation, og),
                 task |-> FALSE]] :
        title \in {NoElement} \cup {Element(t) : t \in TitleTexts},
        h1 \in H1Elements, citation \in CitationMetas, og \in OgMetas }

\* pieces the titles handed to _clean_title are put together from; the long
\* one is one character short of the length cap
CleanChunks ==
    { <<"a">>, <<" ">>, <<"\n">>, <<"/">>, <<"?">>, Repeat("m", TitleMaxLen - 1) }

CleanInputs ==
    { [fn |-> "_clean_title", title |-> Join(parts)] :
        parts \in SeqUpTo(CleanChunks, MaxTitleChunks) }

Apply_extract_url ==
    /\ input.fn = "_extract_url"
    /\ output = NoFunction
    /\ output' = [fn |-> input.fn, result |-> _extract_url(input.self)]
    /\ UNCHANGED <<input, extractorVars, batchVars>>

Apply_extract_title ==
    /\ input.fn = "_extract_title"
    /\ output = NoFunction
    /\ output' = [fn |-> input.fn, result |-> _extract_title(input.self)]
    /\ UNCHANGED <<input, extractorVars, batchVars>>

Apply_clean_title ==
    /\ input.fn = "_clean_title"
    /\ output = NoFunction
    /\ output' = [fn |-> input.fn, result |-> _clean_title(input.title)]
    /\ UNCHANGED <<input, extractorVars, batchVars>>

InitFunctions ==
    /\ \/ /\ input \in UrlInputs
          /\ context \in TaskContexts
          /\ store \in Stores
          /\ DEFAULT_REFERER \in DefaultReferers(store)
       \/ /\ input \in TitleInputs \cup CleanInputs
          /\ context = [status |-> "crawling"]
          /\ store = [u \in {} |-> 0]
          /\ DEFAULT_REFERER = HardcodedReferer
    /\ ext = {}
    /\ calls = <<>>
    /\ extract_calls = 0
    /\ last = [kind |-> "none"]
    /\ output = NoFunction
    /\ BatchIdle

NextFunctions ==
    \/ Apply_extract_url
    \/ Apply_extract_title
    \/ Apply_clean_title

SpecFunctions == InitFunctions /\ [][NextFunctions]_vars

-----------------------------------------------------------------------------
(* The batch loop of download(). *)

FailureStatuses == {"crawling_failed", "extracting_failed", "downloading_failed"}

\* what ScihubTask does for one identifier: the constructor raises; run()
\* returns, leaving a final status in the context; or run() raises, with or
\* without 'status' and 'error' set in the context
TaskOutcomes ==
    {[ctor_raises |-> TRUE, run_raises |-> FALSE, context |-> [referer |-> M1]]}
    \cup {[ctor_raises |-> FALSE, run_raises |-> FALSE,
           context |-> [status |-> "done"]]}
    \cup {[ctor_raises |-> FALSE, run_raises |-> FALSE,
           context |-> [status |-> st, error |-> "e"]] : st \in FailureStatuses}
    \cup {[ctor_raises |-> FALSE, run_raises |-> TRUE, context |-> c] :
            c \in { [status |-> "extracting_failed", error |-> "e"],
                    [status |-> "resolving_mirror"],
                    [referer |-> M1] }}

SourceKeywords == {"a", "b"}

TaskKwargs == [source_keyword : SourceKeywords, outcome : TaskOutcomes]

\* the except block of the loop: the final status and error are read from
\* the context for the log line (a missing key raises KeyError), then the
\* source keyword is recorded
HandlerRaises(task) ==
    ~({"status", "error"} \subseteq DOMAIN task.outcome.context)

\* the status test after run() returned
CountedSuccessful(task) ==
    GetKey(task.outcome.context, "status") \notin {<<st>> : st \in FailureStatuses}

\* one pass of `for task_kwargs in tasks`
Iteration ==
    /\ pc = "loop"
    /\ total_attempted < Len(tasks)
    /\ total_attempted' = total_attempted + 1
    /\ LET i == total_attempted + 1
           task == tasks[i]
       IN  IF task.outcome.ctor_raises
           THEN /\ pc' = "raised"
                /\ UNCHANGED <<constructed, ran, successful_downloads,
                               failed_sources>>
           ELSE /\ constructed' = Append(constructed, i)
                /\ ran' = Append(ran, i)
                /\ IF ~task.outcome.run_raises
                   THEN /\ pc' = pc
                        /\ IF CountedSuccessful(task)
                           THEN /\ successful_downloads' = successful_downloads + 1
                                /\ UNCHANGED failed_sources
                           ELSE /\ failed_sources' =
                                       Append(failed_sources, task.source_keyword)
                                /\ UNCHANGED successful_downloads
                   ELSE IF HandlerRaises(task)
                        THEN /\ pc' = "raised"
                             /\ UNCHANGED <<successful_downloads, failed_sources>>
                        ELSE /\ pc' = pc
                             /\ failed_sources' =
                                    Append(failed_sources, task.source_keyword)
                             /\ UNCHANGED successful_downloads
    /\ UNCHANGED <<tasks, input_file, failed_file>>
    /\ UNCHANGED <<extractorVars, functionVars>>

\* after the loop: the failed sources are written to the "_failed" file when
\* there are any and an input file was given; a write error is logged
WriteFailedFile ==
    /\ pc = "loop"
    /\ total_attempted = Len(tasks)
    /\ pc' = "report"
    /\ IF failed_sources # <<>> /\ input_file
       THEN \E n \in 0..Len(failed_sources) :
                failed_file' = SubSeq(failed_sources, 1, n)
       ELSE UNCHANGED failed_file
    /\ UNCHANGED <<tasks, input_file, total_attempted, successful_downloads,
                   failed_sources, constructed, ran>>
    /\ UNCHANGED <<extractorVars, functionVars>>

\* the final report is logged
FinalReport ==
    /\ pc = "report"
    /\ pc' = "done"
    /\ UNCHANGED <<tasks, input_file, total_attempted, successful_downloads,
                   failed_sources, failed_file, constructed, ran>>
    /\ UNCHANGED <<extractorVars, functionVars>>

InitBatch ==
    /\ tasks \in SeqUpTo(TaskKwargs, MaxTasks)
    /\ input_file \in BOOLEAN
    /\ pc = "loop"
    /\ total_attempted = 0
    /\ successful_downloads = 0
    /\ failed_sources = <<>>
    /\ failed_file = <<>>
    /\ constructed = <<>>
    /\ ran = <<>>
    /\ ExtractorIdle
    /\ FunctionIdle

NextBatch ==
    \/ Iteration
    \/ WriteFailedFile
    \/ FinalReport

SpecBatch == InitBatch /\ [][NextBatch]_vars

-----------------------------------------------------------------------------
(* Properties of HtmlPdfExtractor.__init__ and extract, under Spec. *)

\* this step is an extract() call that raised, on an extractor with a task
ExtractRaisedOnTask ==
    /\ extract_calls' = extract_calls + 1
    /\ last'.kind = "raised"
    /\ last'.self.task

\* this step is an extract() call that returned, on an extractor with a task
ExtractReturnedOnTask ==
    /\ extract_calls' = extract_calls + 1
    /\ last'.kind = "returned"
    /\ last'.self.task

\* C1: whenever extract() fails on a task, the context ends with status
\* 'extracting_failed' and the error recorded, increment_failed_times is
\* called exactly once, with the context's referer, the failure counter of
\* that mirror grows by exactly 1 and no other counter changes, and the
\* update is in place in the state in which the caller sees the exception.
C1_FailureIsRecorded ==
    [][ExtractRaisedOnTask =>
        /\ last'.exc = "ExtractException"
        /\ context'.status = "extracting_failed"
        /\ "error" \in DOMAIN context'
        /\ context'.error = last'.cause
        /\ calls' = Append(calls, [op |-> "increment_failed_times",
                                   url |-> GetKey(context, "referer")])
        /\ DOMAIN store' = DOMAIN store
        /\ \A u \in DOMAIN store :
            /\ store'[u].success_times = store[u].success_times
            /\ store'[u].failed_times =
                 IF GetKey(context, "referer") = <<u>>
                 THEN store[u].failed_times + 1
                 ELSE store[u].failed_times]_vars

\* an extract() call failed on a task whose referer M1 is a stored mirror:
\* M1 has one failure and no success, M2 has none
C1_Witness ==
    /\ last.kind = "raised"
    /\ last.self.task
    /\ context.status = "extracting_failed"
    /\ GetKey(context, "referer") = <<M1>>
    /\ M1 \in DOMAIN store
    /\ store[M1].failed_times = 1
    /\ store[M1].success_times = 0
    /\ store[M2].failed_times = 0
    /\ Len(calls) = 1

InProgressStatuses ==
    {"created", "resolving_mirror", "crawling", "extracting", "downloading"}

StatusRank(st) ==
    CASE st = "created" -> 0
      [] st = "resolving_mirror" -> 1
      [] st = "crawling" -> 2
      [] st = "extracting" -> 3
      [] st = "downloading" -> 4
      [] st = "done" -> 5
      [] OTHER -> 6

\* a status change the task state machine allows
MovesForward(from, to) ==
    \/ to = from
    \/ /\ from \in InProgressStatuses
       /\ to \in InProgressStatuses \cup {"done"}
       /\ StatusRank(from) < StatusRank(to)
    \/ /\ from \in InProgressStatuses
       /\ to \in FailureStatuses

\* C3: context.status is never rewound: over any sequence of constructions
\* and extract() calls on the task it only moves forward, and a failure
\* status or 'done' never changes again.
C3_StatusNeverRewound ==
    [][MovesForward(context.status, context'.status)]_vars

\* C5: when extract() succeeds on a task, context.info is the extracted
\* (document_url, title) pair, no call is made on the health store and no
\* counter changes, and status, error and referer are as they were.
C5_SuccessOnlySetsInfo ==
    [][ExtractReturnedOnTask =>
        /\ last'.info = [url |-> _extract_url(last'.self).val,
                         title |-> _extract_title(last'.self)]
        /\ "info" \in DOMAIN context'
        /\ context'.info = last'.info
        /\ \A k \in {"status", "error", "referer"} :
              GetKey(context', k) = GetKey(context, k)
        /\ DOMAIN context' = DOMAIN context \cup {"info"}
        /\ calls' = calls
        /\ store' = store]_vars

\* an extract() call succeeded on a task: info is set, the status is
\* still 'extracting', the health store was never called
C5_Witness ==
    /\ last.kind = "returned"
    /\ last.self.task
    /\ "info" \in DOMAIN context
    /\ context.info = last.info
    /\ context.info.url = M1 \o <<"/", "a">>
    /\ context.status = "extracting"
    /\ calls = <<>>

\* C9: extract() raises exactly when no element matches the selector
\* (PdfTagNotFoundException) or the first match lacks the link attribute
\* (PdfUrlNotFoundException), the tag being checked first; what the caller
\* gets is an ExtractException made from it, and nothing else raises.
C9_ExtractionErrors ==
    last.kind \in {"returned", "raised"} =>
        LET tag == last.self.content.pdf_tag
        IN  /\ (last.kind = "raised") <=> (~tag.found \/ ~tag.has_attr)
            /\ last.kind = "raised" =>
                /\ last.exc = "ExtractException"
                /\ (last.cause = "PdfTagNotFoundException") <=> ~tag.found
                /\ (last.cause = "PdfUrlNotFoundException") <=>
                       (tag.found /\ ~tag.has_attr)

\* an extract() call failed on a page whose pdf tag lacks the attribute
C9_Witness ==
    /\ last.kind = "raised"
    /\ last.exc = "ExtractException"
    /\ last.cause = "PdfUrlNotFoundException"
    /\ last.self.content.pdf_tag.found

-----------------------------------------------------------------------------
(* Properties of the extractor's functions, under SpecFunctions. *)

\* the longest prefix of s without the character c
Before(s, c) ==
    SubSeq(s, 1, CHOOSE n \in 0..Len(s) :
                    /\ \A i \in 1..n : s[i] # c
                    /\ n = Len(s) \/ s[n + 1] = c)

\* what follows the first occurrence of c in s, for s that contains c
After(s, c) == SubSeq(s, Len(Before(s, c)) + 2, Len(s))

IsAbsoluteUrl(url) == \E prefix \in PROTOCOL_PREFIXES : StartsWith(url, prefix)

HasProtocolPrefix(raw) ==
    \E prefix \in PROTOCOL_PREFIXES, i \in 1..Len(raw) :
        StartsWith(SubSeq(raw, i, Len(raw)), prefix)

\* _extract_url has been applied to an extractor whose link is raw
UrlApplied == output.fn = "_extract_url"
RawOfInput == input.self.content.pdf_tag.raw

\* C2: for every raw link value for which extraction succeeds, the
\* resulting document_url is an absolute, scheme-qualified url.
C2_UrlIsAbsolute ==
    (UrlApplied /\ output.result.ok) => IsAbsoluteUrl(output.result.val)

\* the mirror base url a "/..." link is resolved against: the task's
\* referer, the default mirror without a task or without a referer
ActiveMirror ==
    IF input.self.task /\ "referer" \in DOMAIN context
    THEN context.referer
    ELSE DEFAULT_REFERER

\* C6: for a raw link value without a recognized protocol prefix,
\* everything from the first '#' on is removed, and then a value starting
\* with '//' becomes the default scheme followed by the rest, a value
\* starting with a single '/' the active mirror base url followed by the
\* value.
C6_UrlResolution ==
    (UrlApplied /\ ~HasProtocolPrefix(RawOfInput)) =>
        LET url == Before(RawOfInput, "#")
        IN  /\ output.result.ok
            /\ StartsWith(url, <<"/", "/">>) =>
                 output.result.val =
                     <<"h", "t", "t", "p", "s", ":", "/", "/">>
                         \o SubSeq(url, 3, Len(url))
            /\ (StartsWith(url, <<"/">>) /\ ~StartsWith(url, <<"/", "/">>)) =>
                 output.result.val = ActiveMirror \o url

\* "/x#" was resolved against the task's referer M1 to M1 + "/x"
C6_Witness ==
    /\ UrlApplied
    /\ RawOfInput = <<"/", "x", "#">>
    /\ input.self.task
    /\ GetKey(context, "referer") = <<M1>>
    /\ output.result.val = M1 \o <<"/", "x">>

IsBlank(text) == \A i \in 1..Len(text) : text[i] \in Whitespace

\* what each title method yields on a page
TitleElementText(content) ==
    IF ~content.title.present
    THEN <<>>
    ELSE IF \E i \in 1..Len(content.title.text) : content.title.text[i] = "|"
         THEN Before(After(content.title.text, "|"), "|")
         ELSE content.title.text

H1Text(content) == IF content.h1.present THEN content.h1.text ELSE <<>>

MetaContent(content) ==
    LET meta == IF content.citation_title.present
                THEN content.citation_title
                ELSE content.og_title
    IN  IF meta.present /\ meta.has_content THEN meta.content ELSE <<>>

\* the text of the first method that yields non-blank text
FirstNonBlank(content) ==
    IF ~IsBlank(TitleElementText(content))
    THEN TitleElementText(content)
    ELSE IF ~IsBlank(H1Text(content))
         THEN H1Text(content)
         ELSE IF ~IsBlank(MetaContent(content))
              THEN MetaContent(content)
              ELSE <<>>

\* C7: the extracted title is the cleaned text of the first method that
\* yields non-blank text: the title element (the segment after the first
\* '|' if it has one, else the whole text), the first h1, the content of
\* the citation_title meta tag or, when there is none, of the og:title one.
C7_TitleMethodOrder ==
    output.fn = "_extract_title" =>
        output.result = _clean_title(FirstNonBlank(input.self.content))

\* the title element is "a|" (blank after the bar) and the h1 is "h:":
\* the title is "h"
C7_Witness ==
    /\ output.fn = "_extract_title"
    /\ input.self.content.title = Element(<<"a", "|">>)
    /\ input.self.content.h1 = Element(<<"h", ":">>)
    /\ input.self.content.citation_title = Meta(<<"c">>)
    /\ output.result = <<"h">>

\* C8: the cleaned title has none of the characters / \ : * ? " < > |
\* (each is replaced by a space, not deleted), is at most 200 characters
\* long and has no leading or trailing whitespace; an empty or all-blank
\* input gives the empty string.
C8_CleanTitle ==
    output.fn = "_clean_title" =>
        LET title == input.title
            cleaned == output.result
            n == IF Len(title) < 200 THEN Len(title) ELSE 200
        IN  /\ \A i \in 1..Len(cleaned) : cleaned[i] \notin HostileChars
            /\ Len(cleaned) <= 200
            /\ cleaned # <<>> =>
                  /\ cleaned[1] \notin Whitespace
                  /\ cleaned[Len(cleaned)] \notin Whitespace
            /\ \E a \in 0..n :
                  /\ a + Len(cleaned) <= n
                  /\ \A i \in 1..n :
                        IF i > a /\ i <= a + Len(cleaned)
                        THEN cleaned[i - a] =
                                 IF title[i] \in HostileChars THEN " " ELSE title[i]
                        ELSE title[i] \in HostileChars \cup Whitespace
            /\ (\A i \in 1..Len(title) : title[i] \in HostileChars \cup Whitespace)
                  => cleaned = <<>>

\* a 201-character title with a '/' in it was cleaned to 200 characters,
\* the '/' replaced by a space
C8_Witness ==
    /\ output.fn = "_clean_title"
    /\ Len(input.title) = 201
    /\ input.title[2] = "/"
    /\ Len(output.result) = 200
    /\ output.result[2] = " "

-----------------------------------------------------------------------------
(* Properties of the batch loop of download(), under SpecBatch. *)

AllTasks == [i \in 1..Len(tasks) |-> i]

\* C4: a single failed identifier never aborts the batch: however a task
\* fails, every task of the list is constructed and run, in list order,
\* and the loop reaches the final report.
C4_BatchNeverAborts ==
    /\ pc # "raised"
    /\ pc \in {"report", "done"} => (constructed = AllTasks /\ ran = AllTasks)

\* the task counts as a successful download
IsSuccessful(task) ==
    /\ ~task.outcome.ctor_raises
    /\ ~task.outcome.run_raises
    /\ \/ "status" \notin DOMAIN task.outcome.context
       \/ task.outcome.context.status \notin FailureStatuses

RECURSIVE FailedKeywords(_)
\* the source keywords of the tasks among the first n that are not successful
FailedKeywords(n) ==
    IF n = 0
    THEN <<>>
    ELSE IF IsSuccessful(tasks[n])
         THEN FailedKeywords(n - 1)
         ELSE Append(FailedKeywords(n - 1), tasks[n].source_keyword)

\* C10: after every iteration each task attempted so far is counted in
\* exactly one tally: successful_downloads + len(failed_sources) =
\* total_attempted, a task is counted successful iff run() returned and its
\* status is no failure status, otherwise its keyword is appended once to
\* failed_sources in task order; at the end total_attempted = len(tasks).
C10_TalliesCoverEveryTask ==
    /\ successful_downloads + Len(failed_sources) = total_attempted
    /\ successful_downloads =
          Cardinality({i \in 1..total_attempted : IsSuccessful(tasks[i])})
    /\ failed_sources = FailedKeywords(total_attempted)
    /\ pc = "done" => total_attempted = Len(tasks)

=============================================================================
